---- MODULE Spec2Model ----
(***************************************************************************)
(* A model of the log-structured key-value store of src/src/lib.rs.        *)
(*                                                                         *)
(* Files are sequences of bytes.  The dirty log and every segment are      *)
(* modelled byte for byte, with the 4-byte big-endian length framing of    *)
(* write_entry / read_entry, so that a mis-framed file is something the    *)
(* readers of the model can meet, exactly as the readers of the code.      *)
(* A reader is a pair (file, position); a read returns a record with the   *)
(* field ok (FALSE models io::ErrorKind::UnexpectedEof), what was read,    *)
(* and the position after the read.                                        *)
(***************************************************************************)
EXTENDS Integers, Sequences, FiniteSets, TLC

\* ------------------------------------------------------------- bounds ----

\* Number of add calls in one behaviour.
MaxAdds == 3

\* Largest id a new segment may get: a call that would write a segment with
\* a larger id is not made.
MaxSegId == 1

\* The same bounds for a Database that starts one segment short of a full
\* segment list.
MaxAddsFull == 2
MaxSegIdFull == 10

\* The same bounds for a Database whose calls may be cut short by the death
\* of the process or by an I/O error.
MaxAddsFault == 2
MaxSegIdFault == 1

\* The keys and values the client passes to add and get.  They include the
\* empty key, the empty value, a key that is a prefix of another one, and
\* keys and values of different lengths.
Keys == {<< >>, <<1>>, <<1, 2>>}
Values == {<< >>, <<3>>}

\* The thresholds the client passes to dirty_thresholds: with 1, add flushes
\* when it binds a second key.
Thresholds == {1}

\* --------------------------------------------------- program constants ----

\* dirty_thresholds of a new Database.
DefaultThreshold == 1024

\* flush_dirty merges when the segment list is longer than this.
MaxSegments == 10

\* mem::size_of::<u32>()
SizeOfU32 == 4

\* ------------------------------------------------------ byte utilities ----

Min(a, b) == IF a <= b THEN a ELSE b

\* The bytes of f from position p (0-based) to the end.
Rest(f, p) == SubSeq(f, p + 1, Len(f))

\* Ord for Vec<u8> / [u8]: lexicographic, a proper prefix is smaller.
LessEq(a, b) ==
    LET n == Min(Len(a), Len(b))
        d == {i \in 1..n : a[i] # b[i]}
    IN  IF d = {}
        THEN Len(a) <= Len(b)
        ELSE LET i == CHOOSE x \in d : \A y \in d : x <= y
             IN  a[i] < b[i]

\* u32::to_be_bytes of (n as u32).
to_be_bytes(n) ==
    << (n \div 16777216) % 256, (n \div 65536) % 256, (n \div 256) % 256, n % 256 >>

\* u32::from_be_bytes.
from_be_bytes(b) ==
    b[1] * 16777216 + b[2] * 65536 + b[3] * 256 + b[4]

\* ------------------------------------------------------- framing codec ----

write_entry(key, value) ==
    to_be_bytes(Len(key)) \o key \o to_be_bytes(Len(value)) \o value

\* read_exact of 4 bytes, then from_be_bytes.
read_u32(f, p) ==
    IF p + SizeOfU32 <= Len(f)
    THEN [ok |-> TRUE, n |-> from_be_bytes(SubSeq(f, p + 1, p + SizeOfU32)),
          pos |-> p + SizeOfU32]
    ELSE [ok |-> FALSE, n |-> 0, pos |-> Len(f)]

\* read_exact of size bytes into buf.
read_bytes(f, p, size) ==
    IF p + size <= Len(f)
    THEN [ok |-> TRUE, buf |-> SubSeq(f, p + 1, p + size), pos |-> p + size]
    ELSE [ok |-> FALSE, buf |-> << >>, pos |-> Len(f)]

read_entry(f, p) ==
    LET size == read_u32(f, p)
    IN  IF size.ok
        THEN read_bytes(f, size.pos, size.n)
        ELSE [ok |-> FALSE, buf |-> << >>, pos |-> Len(f)]

\* io::copy(&mut reader.by_ref().take(n), ..): copies at most n bytes and
\* is not an error when the reader ends before n bytes.
copy_take(f, p, n) ==
    LET end == Min(p + n, Len(f))
    IN  [bytes |-> SubSeq(f, p + 1, end), pos |-> end]

skip_entry(f, p) ==
    LET size == read_u32(f, p)
    IN  IF size.ok
        THEN [ok |-> TRUE, pos |-> copy_take(f, size.pos, size.n).pos]
        ELSE [ok |-> FALSE, pos |-> Len(f)]

\* ------------------------------------------------------------ Segment ----

\* Results of get: Ok(Some(value)), Ok(None), Err(_).
Some(v) == [kind |-> "Some", value |-> v]
None == [kind |-> "None", value |-> << >>]
Err == [kind |-> "Err", value |-> << >>]

\* The loop of Segment::get, with the reader at position p.
RECURSIVE Segment_get_loop(_, _, _)
Segment_get_loop(file, key, p) ==
    LET k == read_entry(file, p)
    IN  IF ~k.ok
        THEN None
        ELSE IF key = k.buf
        THEN LET v == read_entry(file, k.pos)
             IN  IF v.ok THEN Some(v.buf) ELSE Err
        ELSE LET s == skip_entry(file, k.pos)
             IN  IF s.ok THEN Segment_get_loop(file, key, s.pos) ELSE Err

\* Segment::get: seek to 0, then scan.
Segment_get(file, key) == Segment_get_loop(file, key, 0)

\* The result of Segment::merge: Ok(()) with the bytes written, or Err.
MergeOk(out) == [ok |-> TRUE, out |-> out]
MergeErr == [ok |-> FALSE, out |-> << >>]

\* The loop of Segment::merge.  new and old are the two files, np and op the
\* positions of their readers, new_key and old_key the pending keys, out
\* what new_segment holds so far.
RECURSIVE Segment_merge_loop(_, _, _, _, _, _, _)
Segment_merge_loop(new, old, np, op, new_key, old_key, out) ==
    IF LessEq(new_key, old_key)
    THEN
        LET out1 == out \o to_be_bytes(Len(new_key)) \o new_key
            value_size == read_u32(new, np)
            value == copy_take(new, value_size.pos, value_size.n)
            out2 == out1 \o to_be_bytes(value_size.n) \o value.bytes
            skipped == skip_entry(old, op)
            next_old == read_entry(old, skipped.pos)
            equal == (new_key = old_key)
            old_key2 == IF equal THEN next_old.buf ELSE old_key
            op2 == IF equal THEN next_old.pos ELSE op
            next_new == read_entry(new, value.pos)
        IN  IF ~value_size.ok
            THEN MergeErr
            ELSE IF equal /\ ~skipped.ok
            THEN MergeErr
            ELSE IF equal /\ ~next_old.ok
            THEN MergeOk(out2 \o to_be_bytes(Len(new_key)) \o new_key
                              \o Rest(new, value.pos))
            ELSE IF ~next_new.ok
            THEN MergeOk(out2 \o to_be_bytes(Len(old_key2)) \o old_key2
                              \o Rest(old, op2))
            ELSE Segment_merge_loop(new, old, next_new.pos, op2,
                                    next_new.buf, old_key2, out2)
    ELSE
        LET out1 == out \o to_be_bytes(Len(old_key)) \o old_key
            value_size == read_u32(old, op)
            value == copy_take(old, value_size.pos, value_size.n)
            out2 == out1 \o to_be_bytes(value_size.n) \o value.bytes
            next_old == read_entry(old, value.pos)
        IN  IF ~value_size.ok
            THEN MergeErr
            ELSE IF ~next_old.ok
            THEN MergeOk(out2 \o to_be_bytes(Len(new_key)) \o new_key
                              \o Rest(new, np))
            ELSE Segment_merge_loop(new, old, np, next_old.pos,
                                    new_key, next_old.buf, out2)

\* Segment::merge(writer, new, old): both files are read from offset 0; the
\* first key of each is read before the loop and a failure there is returned.
Segment_merge(new, old) ==
    LET new_key == read_entry(new, 0)
        old_key == read_entry(old, 0)
    IN  IF ~new_key.ok \/ ~old_key.ok
        THEN MergeErr
        ELSE Segment_merge_loop(new, old, new_key.pos, old_key.pos,
                                new_key.buf, old_key.buf, << >>)

\* ----------------------------------------------------------- Database ----

VARIABLES
    dirty_thresholds,   \* Database::dirty_thresholds
    memtable,           \* Database::memtable: a function key -> offset
    dirty,              \* the bytes of the file "dirty"
    dirty_pos,          \* the cursor of the handle Database::dirty
    segments,           \* Database::segments: records [id, file], oldest first
    latest,             \* history: key -> result of the latest add of the key
    log,                \* history: the (key, value) pairs added since the
                        \* dirty log was last truncated, in order
    session,            \* history: "first" for the Database that created the
                        \* directory, "reopened" after drop and Database::new
                        \* with no add, flush_dirty or merge_segment since,
                        \* "resumed" after such a call; after the death of
                        \* the process and Database::new, "crashed_in_flush",
                        \* "crashed_after_write" or "crashed_in_write" by
                        \* where it died, "open_failed" when Database::new
                        \* returned an error
    nAdds               \* history: number of add calls since the initial state

vars == << dirty_thresholds, memtable, dirty, dirty_pos, segments, latest,
           log, session, nAdds >>

\* BTreeMap::new().
EmptyMap == [k \in {} |-> 0]

\* An insertion that keeps the binding of a key that is already bound.
Insert_if_absent(map, key, value) ==
    [k \in DOMAIN map \cup {key} |-> IF k \in DOMAIN map THEN map[k] ELSE value]

\* BTreeMap::insert.
Insert(map, key, value) ==
    [k \in DOMAIN map \cup {key} |-> IF k = key THEN value ELSE map[k]]

\* The last key of a non-empty set of keys in the order of the BTreeMap.
LastKey(S) == CHOOSE k \in S : \A j \in S : LessEq(j, k)

\* The first key of a non-empty set of keys in the order of the BTreeMap:
\* BTreeMap::iter yields the keys in ascending order.
FirstKey(S) == CHOOSE k \in S : \A j \in S : LessEq(k, j)

\* File::write_all at cursor p of file f: bytes beyond the end of the file
\* are preceded by zeros, bytes inside it are overwritten.
file_write(f, p, bytes) ==
    LET n == Len(bytes)
        head == IF p <= Len(f)
                THEN SubSeq(f, 1, p)
                ELSE f \o [i \in 1..(p - Len(f)) |-> 0]
    IN  head \o bytes \o Rest(f, Min(p + n, Len(f)))

\* prepare_to_add without its seek: the cursor stays where the last read or
\* write left it.
prepare_to_add_no_seek(f, pos) == pos

\* Database::prepare_to_add: seek(SeekFrom::End(0)) on file f whose cursor
\* is pos; the result is the new cursor.
prepare_to_add(f, pos) == Len(f)

\* The size of an entry with one length header counted instead of two.
entry_size_one_header(key_size, value_size) == SizeOfU32 + key_size + value_size

\* The size of an entry in init_memtable: "the size _of the size_ of the key
\* and value + the size of the key + the size of the value".
entry_size(key_size, value_size) == SizeOfU32 * 2 + key_size + value_size

\* The loop of Database::init_memtable: p is the position of the reader,
\* current_position the computed offset of the entry that starts at p.
RECURSIVE init_memtable_loop(_, _, _, _)
init_memtable_loop(f, p, current_position, map) ==
    LET key_size == read_u32(f, p)
        key_buf == read_bytes(f, key_size.pos, key_size.n)
        value_size == read_u32(f, key_buf.pos)
        value == copy_take(f, value_size.pos, value_size.n)
    IN  IF ~key_size.ok
        THEN [ok |-> TRUE, memtable |-> map]
        ELSE IF ~key_buf.ok \/ ~value_size.ok
        THEN [ok |-> FALSE, memtable |-> EmptyMap]
        ELSE init_memtable_loop(f, value.pos,
                 current_position + entry_size(key_size.n, value_size.n),
                 Insert(map, key_buf.buf, current_position))

init_memtable(f) == init_memtable_loop(f, 0, 0, EmptyMap)

\* Database::merge_segment on the segment list segs (at least two long):
\* the two front segments are popped, merged, and the result is pushed to
\* the front with the id of the older one.  When Segment::merge fails the
\* function returns through `?` after the two pops.
merge_segment(segs) ==
    LET old == segs[1]
        new == segs[2]
        rest == SubSeq(segs, 3, Len(segs))
        merged == Segment_merge(new.file, old.file)
    IN  IF merged.ok
        THEN [ok |-> TRUE,
              segments |-> << [id |-> old.id, file |-> merged.out] >> \o rest]
        ELSE [ok |-> FALSE, segments |-> rest]

\* The loop of Database::flush_dirty over the memtable in key order: todo
\* is the set of keys still to write, out the bytes written to the
\* temporary file, pos the cursor of the dirty log.
RECURSIVE flush_loop(_, _, _, _, _)
flush_loop(map, f, todo, out, pos) ==
    IF todo = {}
    THEN [ok |-> TRUE, out |-> out, pos |-> pos]
    ELSE LET key == FirstKey(todo)
             value == read_entry(f, map[key] + SizeOfU32 + Len(key))
         IN  IF ~value.ok
             THEN [ok |-> FALSE, out |-> out, pos |-> value.pos]
             ELSE flush_loop(map, f, todo \ {key},
                             out \o write_entry(key, value.buf), value.pos)

\* The id flush_dirty gives to the segment it writes.
next_id(segs) == IF segs = << >> THEN 0 ELSE segs[Len(segs)].id + 1

\* The dirty log after dirty.set_len(0); the cursor is not moved.
set_len_0(f) == << >>

\* Database::flush_dirty on the state (map, f, pos, segs).  written says
\* that the new segment was pushed to the list, merged that merge_segment
\* was called.
flush_dirty(map, f, pos, segs) ==
    LET dump == flush_loop(map, f, DOMAIN map, << >>, pos)
        pushed == Append(segs, [id |-> next_id(segs), file |-> dump.out])
        merge == merge_segment(pushed)
    IN  IF ~dump.ok
        THEN [ok |-> FALSE, written |-> FALSE, merged |-> FALSE,
              memtable |-> map, dirty |-> f, dirty_pos |-> dump.pos,
              segments |-> segs]
        ELSE IF Len(pushed) > MaxSegments
        THEN [ok |-> merge.ok, written |-> TRUE, merged |-> TRUE,
              memtable |-> EmptyMap, dirty |-> set_len_0(f),
              dirty_pos |-> dump.pos, segments |-> merge.segments]
        ELSE [ok |-> TRUE, written |-> TRUE, merged |-> FALSE,
              memtable |-> EmptyMap, dirty |-> set_len_0(f),
              dirty_pos |-> dump.pos, segments |-> pushed]

\* Database::get_from_segments: from segment i down to the first one.
RECURSIVE get_from_segments(_, _, _)
get_from_segments(segs, key, i) ==
    IF i = 0
    THEN None
    ELSE LET r == Segment_get(segs[i].file, key)
         IN  IF r.kind = "None" THEN get_from_segments(segs, key, i - 1) ELSE r

\* Database::get on the state (map, f, pos, segs): the result, and the
\* cursor of the dirty log after the call.
get(map, f, pos, segs, key) ==
    IF key \in DOMAIN map
    THEN LET value == read_entry(f, map[key] + SizeOfU32 + Len(key))
         IN  [res |-> IF value.ok THEN Some(value.buf) ELSE Err,
              dirty_pos |-> value.pos]
    ELSE [res |-> get_from_segments(segs, key, Len(segs)), dirty_pos |-> pos]

\* What get(key) returns in the current state, and in the state after the
\* step.
Get(key) == get(memtable, dirty, dirty_pos, segments, key).res
GetAfter(key) == get(memtable', dirty', dirty_pos', segments', key).res

\* ------------------------------------------------------------ actions ----

\* A freshly created directory, opened by Database::new.
Init ==
    /\ dirty_thresholds = DefaultThreshold
    /\ memtable = EmptyMap
    /\ dirty = << >>
    /\ dirty_pos = 0
    /\ segments = << >>
    /\ latest = [k \in Keys |-> None]
    /\ log = << >>
    /\ session = "first"
    /\ nAdds = 0

\* The session after a call of add, flush_dirty or merge_segment.
Touched == IF session = "first" THEN "first" ELSE "resumed"

\* Database::dirty_thresholds(threshold)
Call_dirty_thresholds(threshold) ==
    /\ dirty_thresholds' = threshold
    /\ UNCHANGED << memtable, dirty, dirty_pos, segments, latest, log,
                    session, nAdds >>

\* The test of add with >= in place of >.
must_flush_at(len, threshold) == len >= threshold

\* The test of add on the size of the memtable after the insertion:
\* self.memtable.len() > self.dirty_thresholds.
must_flush(len, threshold) == len > threshold

\* The state add(key, value) leaves, and its result: the entry is written
\* at the end of the dirty log, the key is bound to its offset, and the
\* dirty log is flushed when the memtable is larger than the threshold.
add(key, value) ==
    LET pos == prepare_to_add(dirty, dirty_pos)
        entry == write_entry(key, value)
        written == file_write(dirty, pos, entry)
        inserted == Insert(memtable, key, pos)
        flush == flush_dirty(inserted, written, pos + Len(entry), segments)
    IN  IF must_flush(Cardinality(DOMAIN inserted), dirty_thresholds)
        THEN flush
        ELSE [ok |-> TRUE, written |-> FALSE, merged |-> FALSE,
              memtable |-> inserted, dirty |-> written,
              dirty_pos |-> pos + Len(entry), segments |-> segments]

\* Database::add(key, value)
Call_add(key, value) ==
    /\ LET r == add(key, value)
       IN  /\ memtable' = r.memtable
           /\ dirty' = r.dirty
           /\ dirty_pos' = r.dirty_pos
           /\ segments' = r.segments
           /\ log' = IF r.written THEN << >> ELSE Append(log, << key, value >>)
    /\ latest' = [latest EXCEPT ![key] = Some(value)]
    /\ nAdds' = nAdds + 1
    /\ session' = Touched
    /\ UNCHANGED dirty_thresholds

\* Database::flush_dirty()
Call_flush_dirty ==
    /\ LET r == flush_dirty(memtable, dirty, dirty_pos, segments)
       IN  /\ memtable' = r.memtable
           /\ dirty' = r.dirty
           /\ dirty_pos' = r.dirty_pos
           /\ segments' = r.segments
           /\ log' = IF r.written THEN << >> ELSE log
    /\ session' = Touched
    /\ UNCHANGED << dirty_thresholds, latest, nAdds >>

\* Database::merge_segment().  With fewer than two segments the call
\* panics on pop_front().unwrap(): it is not a call that completes.
Call_merge_segment ==
    /\ Len(segments) >= 2
    /\ segments' = merge_segment(segments).segments
    /\ session' = Touched
    /\ UNCHANGED << dirty_thresholds, memtable, dirty, dirty_pos, latest, log,
                    nAdds >>

\* Database::get(key): the state changes by the cursor of the dirty log
\* only; the result is Get(key).
Call_get(key) ==
    /\ dirty_pos' = get(memtable, dirty, dirty_pos, segments, key).dirty_pos
    /\ UNCHANGED << dirty_thresholds, memtable, dirty, segments, latest, log,
                    session, nAdds >>

\* drop(database), then Database::new on the same directory: the file
\* "dirty" is opened again and read to its end by init_memtable; the
\* segment list of the new Database is empty.
Call_new ==
    /\ init_memtable(dirty).ok
    /\ memtable' = init_memtable(dirty).memtable
    /\ dirty_thresholds' = DefaultThreshold
    /\ dirty_pos' = Len(dirty)
    /\ segments' = << >>
    /\ session' = "reopened"
    /\ UNCHANGED << dirty, latest, log, nAdds >>

\* The calls of add and flush_dirty within the bounds maxAdds and maxId: no
\* more than maxAdds calls of add, and no segment with an id above maxId.
Add(key, value, maxAdds, maxId) ==
    /\ nAdds < maxAdds
    /\ Cardinality(DOMAIN memtable \cup {key}) > dirty_thresholds
           => next_id(segments) <= maxId
    /\ Call_add(key, value)

FlushDirty(maxId) ==
    /\ next_id(segments) <= maxId
    /\ Call_flush_dirty

Next ==
    \/ \E threshold \in Thresholds : Call_dirty_thresholds(threshold)
    \/ \E key \in Keys, value \in Values : Add(key, value, MaxAdds, MaxSegId)
    \/ FlushDirty(MaxSegId)
    \/ Call_merge_segment
    \/ \E key \in Keys : Call_get(key)
    \/ Call_new

Spec == Init /\ [][Next]_vars

\* A Database one segment short of a full segment list: the state after the client added
\* the entry old (if any), called flush_dirty, added the entry new (if any),
\* called flush_dirty, and then called flush_dirty on the empty memtable
\* until the list held MaxSegments - 1 segments.  old and new are sequences of
\* at most one (key, value) pair.  The cursor of the dirty log is where the
\* last flush that read it left it.
AtMostOneEntry ==
    {<< >>} \cup {<< << k, v >> >> : k \in Keys, v \in Values}

FlushedFile(entries) ==
    IF entries = << >> THEN << >> ELSE write_entry(entries[1][1], entries[1][2])

FullSegments(old, new) ==
    [i \in 1..(MaxSegments - 1) |->
        [id |-> i - 1,
         file |-> IF i = 1 THEN FlushedFile(old)
                  ELSE IF i = 2 THEN FlushedFile(new)
                  ELSE << >>]]

InitFull ==
    \E old \in AtMostOneEntry, new \in AtMostOneEntry :
        /\ dirty_thresholds = DefaultThreshold
        /\ memtable = EmptyMap
        /\ dirty = << >>
        /\ dirty_pos = IF new # << >> THEN Len(FlushedFile(new))
                       ELSE Len(FlushedFile(old))
        /\ segments = FullSegments(old, new)
        /\ latest = [k \in Keys |->
                        IF new # << >> /\ new[1][1] = k THEN Some(new[1][2])
                        ELSE IF old # << >> /\ old[1][1] = k THEN Some(old[1][2])
                        ELSE None]
        /\ log = << >>
        /\ session = "first"
        /\ nAdds = 0

\* The calls made on it, in one session; merge_segment is called by
\* flush_dirty only.
NextFull ==
    \/ \E threshold \in Thresholds : Call_dirty_thresholds(threshold)
    \/ \E key \in Keys, value \in Values :
          Add(key, value, MaxAddsFull, MaxSegIdFull)
    \/ FlushDirty(MaxSegIdFull)
    \/ \E key \in Keys : Call_get(key)

SpecFull == InitFull /\ [][NextFull]_vars

\* ------------------------------------- crashes, I/O errors, rejections ----

\* Database::new on a directory whose file "dirty" holds f: the Database it
\* returns, or ok = FALSE when init_memtable returns an error.
Database_new(f) ==
    LET replay == init_memtable(f)
    IN  [ok |-> replay.ok,
         dirty_thresholds |-> DefaultThreshold,
         memtable |-> replay.memtable,
         dirty_pos |-> Len(f),
         segments |-> << >>]

\* The first n keys of the set S in the order of the BTreeMap.
RECURSIVE FirstKeys(_, _)
FirstKeys(S, n) ==
    IF n = 0 \/ S = {}
    THEN {}
    ELSE {FirstKey(S)} \cup FirstKeys(S \ {FirstKey(S)}, n - 1)

\* The places where flush_dirty can stop before the temporary file is
\* renamed, as pairs << stop, i >>: at the creation of the temporary file;
\* in the loop, with i entries written; at writer.flush(), with all of them
\* written; at persist, after memtable.clear().
StopPoints(map) ==
    {<< "tempfile", 0 >>}
        \cup {<< "entries", i >> : i \in 0..(Cardinality(DOMAIN map) - 1)}
        \cup {<< "flush", Cardinality(DOMAIN map) >>,
              << "persist", Cardinality(DOMAIN map) >>}

\* The state in which flush_dirty, called on (map, f, pos), stops at the
\* place << stop, i >>: temp is what the temporary file holds.
flush_dirty_stopped(map, f, pos, stop, i) ==
    LET todo == IF stop = "entries" THEN FirstKeys(DOMAIN map, i) ELSE DOMAIN map
        dump == IF stop = "tempfile"
                THEN [ok |-> TRUE, out |-> << >>, pos |-> pos]
                ELSE flush_loop(map, f, todo, << >>, pos)
    IN  [memtable |-> IF stop = "persist" THEN EmptyMap ELSE map,
         dirty |-> f,
         dirty_pos |-> dump.pos,
         temp |-> dump.out]

\* A Database exists and its dirty log was not cut inside a record.
Running ==
    session \in {"first", "reopened", "resumed",
                 "crashed_in_flush", "crashed_after_write"}

\* flush_dirty() returns the error of the I/O operation at << stop, i >>:
\* the temporary file is dropped, the segment list and the dirty log are as
\* they were.
Fail_flush_dirty(stop, i) ==
    /\ << stop, i >> \in StopPoints(memtable)
    /\ LET s == flush_dirty_stopped(memtable, dirty, dirty_pos, stop, i)
       IN  /\ memtable' = s.memtable
           /\ dirty' = s.dirty
           /\ dirty_pos' = s.dirty_pos
    /\ session' = Touched
    /\ UNCHANGED << dirty_thresholds, segments, latest, log, nAdds >>

\* The process dies in flush_dirty() at << stop, i >>, and the directory is
\* opened again by Database::new.
Crash_flush_dirty(stop, i) ==
    /\ << stop, i >> \in StopPoints(memtable)
    /\ LET s == flush_dirty_stopped(memtable, dirty, dirty_pos, stop, i)
           db == Database_new(s.dirty)
       IN  /\ db.ok
           /\ dirty' = s.dirty
           /\ memtable' = db.memtable
           /\ dirty_thresholds' = db.dirty_thresholds
           /\ dirty_pos' = db.dirty_pos
           /\ segments' = db.segments
    /\ session' = "crashed_in_flush"
    /\ UNCHANGED << latest, log, nAdds >>

\* The process dies in add(key, value) when write_entry has written the
\* first n bytes of the entry to the dirty log, the memtable not yet
\* updated, and the directory is opened again by Database::new.  With n the
\* length of the entry, the record is complete.
Crash_write_entry(key, value, n) ==
    LET pos == prepare_to_add(dirty, dirty_pos)
        entry == write_entry(key, value)
        written == file_write(dirty, pos, SubSeq(entry, 1, n))
        db == Database_new(written)
        complete == (n = Len(entry))
    IN  /\ n \in 0..Len(entry)
        /\ dirty' = written
        /\ memtable' = db.memtable
        /\ dirty_thresholds' = db.dirty_thresholds
        /\ dirty_pos' = db.dirty_pos
        /\ segments' = db.segments
        /\ session' = IF ~db.ok THEN "open_failed"
                      ELSE IF complete THEN "crashed_after_write"
                      ELSE "crashed_in_write"
        /\ log' = IF complete THEN Append(log, << key, value >>) ELSE log
        /\ latest' = IF complete THEN [latest EXCEPT ![key] = Some(value)]
                     ELSE latest
        /\ nAdds' = nAdds + 1

\* A usize as two digits in base 65536: its value is hi * 65536 + lo.
usize(n) == [hi |-> n \div 65536, lo |-> n % 65536]
usize_gt(a, b) == a.hi > b.hi \/ (a.hi = b.hi /\ a.lo > b.lo)

\* u32::MAX as usize, and the usize d above it.
u32_MAX == [hi |-> 65535, lo |-> 65535]
above_u32_MAX(d) == [hi |-> 65536, lo |-> d - 1]

\* The variants of Error that carry a length, and no error.
KeyTooLarge(len) == [error |-> "KeyTooLarge", len |-> len]
ValueTooLarge(len) == [error |-> "ValueTooLarge", len |-> len]
NoError == [error |-> "none", len |-> usize(0)]

\* The two tests add makes on the lengths of its arguments before it
\* touches the dirty log: the error it returns, if any.
add_check(key_len, value_len) ==
    IF usize_gt(key_len, u32_MAX)
    THEN KeyTooLarge(key_len)
    ELSE IF usize_gt(value_len, u32_MAX)
    THEN KeyTooLarge(key_len)
    ELSE NoError

\* The lengths of the keys and values of the calls of add that are
\* rejected: short ones, the longest accepted, and longer ones.
Lengths == {usize(0), usize(2), u32_MAX, above_u32_MAX(1), above_u32_MAX(2)}

\* Database::add with a key of key_len bytes and a value of value_len
\* bytes, one of them too long: add returns before it touches anything.
Call_add_rejected(key_len, value_len) ==
    /\ add_check(key_len, value_len) # NoError
    /\ nAdds' = nAdds + 1
    /\ UNCHANGED << dirty_thresholds, memtable, dirty, dirty_pos, segments,
                    latest, log, session >>

\* The calls, crashes and errors of a Database in one directory, until the
\* dirty log is cut inside a record.
NextFault ==
    \/ Running /\ \E threshold \in Thresholds : Call_dirty_thresholds(threshold)
    \/ Running /\ \E key \in Keys, value \in Values :
          Add(key, value, MaxAddsFault, MaxSegIdFault)
    \/ Running /\ FlushDirty(MaxSegIdFault)
    \/ Running /\ \E key \in Keys : Call_get(key)
    \/ Running /\ \E sp \in StopPoints(memtable) : Fail_flush_dirty(sp[1], sp[2])
    \/ Running /\ \E sp \in StopPoints(memtable) : Crash_flush_dirty(sp[1], sp[2])
    \/ Running /\ nAdds < MaxAddsFault
          /\ \E key \in Keys, value \in Values :
                \E n \in 0..Len(write_entry(key, value)) :
                    Crash_write_entry(key, value, n)
    \/ Running /\ nAdds < MaxAddsFault
          /\ \E key_len \in Lengths, value_len \in Lengths :
                Call_add_rejected(key_len, value_len)

SpecFault == Init /\ [][NextFault]_vars

TypeOK ==
    /\ dirty_thresholds \in Thresholds \cup {DefaultThreshold}
    /\ DOMAIN memtable \subseteq Keys
    /\ dirty_pos \in 0..Len(dirty) + 64
    /\ nAdds \in 0..MaxAdds + MaxAddsFull

\* ------------------------------------------- vocabulary of the claims ----

\* len32(n), the length header of the framing, for the lengths of the model.
len32(n) == << 0, 0, 0, n >>

\* The frame of one record: len32(key) key len32(value) value.
Frame(key, value) == len32(Len(key)) \o key \o len32(Len(value)) \o value

\* The frames of the keys of S in strictly ascending order, the value of
\* key k being val[k].
RECURSIVE FramesAscending(_, _)
FramesAscending(S, val) ==
    IF S = {}
    THEN << >>
    ELSE LET k == CHOOSE x \in S : \A y \in S : LessEq(x, y)
         IN  Frame(k, val[k]) \o FramesAscending(S \ {k}, val)

\* The sorted duplicate-free segments over the keys and values of the
\* model, as functions key -> value, and the file of such a segment.
Maps == UNION {[S -> Values] : S \in SUBSET Keys}
FileOf(m) == FramesAscending(DOMAIN m, m)

\* The frames of a sequence of (key, value) pairs, in order.
RECURSIVE FramesOf(_)
FramesOf(pairs) ==
    IF pairs = << >>
    THEN << >>
    ELSE Frame(pairs[1][1], pairs[1][2]) \o FramesOf(Tail(pairs))

\* The offset of the i-th pair of a sequence of pairs written one after the
\* other: 8 + key_len + value_len for each pair before it.
RECURSIVE OffsetOf(_, _)
OffsetOf(pairs, i) ==
    IF i = 1
    THEN 0
    ELSE OffsetOf(pairs, i - 1) + 8 + Len(pairs[i - 1][1]) + Len(pairs[i - 1][2])

\* The index of the last pair with key k in a sequence of pairs.
LastIndexOf(pairs, k) ==
    CHOOSE i \in 1..Len(pairs) :
        /\ pairs[i][1] = k
        /\ \A j \in (i + 1)..Len(pairs) : pairs[j][1] # k

KeysOf(pairs) == {pairs[i][1] : i \in 1..Len(pairs)}

\* The keys that were added, and the value of the latest add of each.
Added == {k \in Keys : latest[k] # None}
LatestValue == [k \in Added |-> latest[k].value]

\* The complete records at the start of file f, as (key, value) pairs: the
\* records a sequential reader gets before the end of the file or the first
\* record that is cut short.
RECURSIVE Records(_)
Records(f) ==
    LET klen == f[1] * 16777216 + f[2] * 65536 + f[3] * 256 + f[4]
        vat == 4 + klen
        vlen == f[vat + 1] * 16777216 + f[vat + 2] * 65536 + f[vat + 3] * 256
                + f[vat + 4]
        end == vat + 4 + vlen
    IN  IF Len(f) < 4 \/ Len(f) < vat + 4 \/ Len(f) < end
        THEN << >>
        ELSE << << SubSeq(f, 5, vat), SubSeq(f, vat + 5, end) >> >>
             \o Records(SubSeq(f, end + 1, Len(f)))

\* File f is a well-framed sequence of records with strictly ascending keys.
SortedUnique(f) ==
    LET r == Records(f)
    IN  /\ f = FramesOf(r)
        /\ \A i \in 1..(Len(r) - 1) :
               LessEq(r[i][1], r[i + 1][1]) /\ r[i][1] # r[i + 1][1]

\* The values file f holds for key k, one for each record with that key.
ValuesOf(f, k) ==
    LET r == Records(f)
    IN  [i \in {j \in 1..Len(r) : r[j][1] = k} |-> r[i][2]]

\* The merge that merge_segment makes in a state with two segments or more:
\* its inputs, the older and the newer of the two front segments, and its
\* result.
FrontOld == segments[1].file
FrontNew == segments[2].file
FrontMerge == Segment_merge(FrontNew, FrontOld)
FrontSorted ==
    /\ Len(segments) >= 2
    /\ SortedUnique(FrontOld)
    /\ SortedUnique(FrontNew)

\* The step is the call add(k, v).
IsAdd(k, v) ==
    /\ nAdds' = nAdds + 1
    /\ latest'[k] = Some(v)
    /\ Call_add(k, v)

\* The step is a call of flush_dirty.
IsFlushDirty ==
    /\ nAdds' = nAdds
    /\ segments' # segments
    /\ Call_flush_dirty

\* The step is a call add(k, v) that called flush_dirty, which wrote a
\* segment and returned Ok.
AddFlushed(k, v) ==
    /\ IsAdd(k, v)
    /\ add(k, v).written
    /\ add(k, v).ok

\* The step is a call of flush_dirty that wrote a segment and returned Ok.
FlushDirtyWrote ==
    /\ IsFlushDirty
    /\ flush_dirty(memtable, dirty, dirty_pos, segments).written
    /\ flush_dirty(memtable, dirty, dirty_pos, segments).ok

LastSegment(segs) == segs[Len(segs)]

\* ------------------------------------------------------------- claims ----

\* C1 (read-your-writes): in one session, the get(k) that follows add(k, v)
\* returns v, and get(k) keeps returning v over every call that is not
\* another add of k.
C1_ReadYourWrites ==
    [][session' = "first" =>
        /\ \A k \in Keys, v \in Values :
              IsAdd(k, v) => GetAfter(k) = Some(v)
        /\ \A k \in Added :
              (latest'[k] = latest[k] /\ nAdds' = nAdds /\ Get(k) = latest[k])
                  => GetAfter(k) = latest[k]]_vars

\* C2 (latest wins): in one session, whatever add, get, flush_dirty and
\* merge_segment calls were made, get(k) returns the value of the most
\* recent add(k, _) for every key k that was added.
C2_LatestWins ==
    session = "first" => \A k \in Added : Get(k) = latest[k]

\* C3 (absence): whatever add, flush_dirty and merge_segment calls were
\* made, get(k) of a key k that was never added is Ok(None).
C3_Absence ==
    \A k \in Keys \ Added : Get(k) = None

\* C4 (durability across open): dropping the Database and opening the
\* directory again gives a Database whose get(k) returns, for every key k,
\* what get(k) returned before the drop.
C4_DurabilityAcrossOpen ==
    [][Call_new => \A k \in Keys : GetAfter(k) = Get(k)]_vars

\* C5 (replay reconstructs the memtable): dropping the Database and opening
\* the directory again leaves the bytes of the dirty log unchanged and gives
\* a memtable equal to the one before the drop, in which each key of the log
\* is bound to the offset of its latest record, the offset of a record being
\* the sum of 8 + key_len + value_len over the records before it.
C5_ReplayReconstructs ==
    [][Call_new =>
        /\ dirty' = dirty
        /\ dirty' = FramesOf(log)
        /\ memtable' = memtable
        /\ DOMAIN memtable' = KeysOf(log)
        /\ \A k \in KeysOf(log) :
              memtable'[k] = OffsetOf(log, LastIndexOf(log, k))]_vars

\* C5 witness: a Database just reopened on a log of three records, two of
\* them of the same key, none flushed.
C5_Witness ==
    /\ session = "reopened"
    /\ segments = << >>
    /\ Len(log) = 3
    /\ Cardinality(KeysOf(log)) = 2
    /\ \E k \in DOMAIN memtable : memtable[k] > 0

\* C6 (merge is sorted-unique): when the two segments merged are each
\* well-framed with strictly ascending keys, the output of Segment::merge is
\* well-framed with strictly ascending keys.
C6_MergeSortedUnique ==
    (FrontSorted /\ FrontMerge.ok) => SortedUnique(FrontMerge.out)

\* C7 (merge newer-wins): when the two segments merged are sorted and
\* duplicate-free, a key present in both is in the merged segment exactly
\* once, with the value of the newer segment.
C7_MergeNewerWins ==
    (FrontSorted /\ FrontMerge.ok) =>
        \A k \in KeysOf(Records(FrontOld)) \cap KeysOf(Records(FrontNew)) :
            /\ Cardinality(DOMAIN ValuesOf(FrontMerge.out, k)) = 1
            /\ \A i \in DOMAIN ValuesOf(FrontMerge.out, k) :
                  ValuesOf(FrontMerge.out, k)[i] \in
                      {ValuesOf(FrontNew, k)[j] : j \in DOMAIN ValuesOf(FrontNew, k)}

\* C8 (merge yields the union): when the two segments merged are sorted and
\* duplicate-free, the keys of the merged segment are the keys of the one
\* and of the other, and a key of only one of them has the value it has
\* there.
C8_MergeUnion ==
    (FrontSorted /\ FrontMerge.ok) =>
        LET old == KeysOf(Records(FrontOld))
            new == KeysOf(Records(FrontNew))
            out == FrontMerge.out
            same(f, g, k) ==
                {ValuesOf(f, k)[i] : i \in DOMAIN ValuesOf(f, k)}
                    = {ValuesOf(g, k)[i] : i \in DOMAIN ValuesOf(g, k)}
        IN  /\ KeysOf(Records(out)) = old \cup new
            /\ \A k \in old \ new : same(out, FrontOld, k)
            /\ \A k \in new \ old : same(out, FrontNew, k)

\* C9 (flush output is sorted and complete): the segment a flush writes
\* holds exactly one record for each key of the memtable flushed, in
\* strictly ascending key order, with the value of the latest add of the key.
C9_FlushSortedComplete ==
    [][/\ FlushDirtyWrote =>
              LastSegment(segments').file
                  = FramesAscending(DOMAIN memtable, LatestValue')
       /\ \A k \in Keys, v \in Values :
             AddFlushed(k, v) =>
                 LastSegment(segments').file
                     = FramesAscending(DOMAIN memtable \cup {k}, LatestValue')]_vars

\* C9 witness: a first segment of two records written after three adds, so
\* that one record of the dirty log was superseded and not copied.
C9_Witness ==
    /\ session = "first"
    /\ nAdds = 3
    /\ Len(segments) = 1
    /\ memtable = EmptyMap
    /\ Len(Records(segments[1].file)) = 2
    /\ segments[1].file = FramesAscending(Added, LatestValue)

\* C10 (flush resets both stores): after a flush that returns Ok the
\* memtable is empty, the dirty log has length 0 and the segment written is
\* the last of the segment list; an add made in that state binds its key to
\* offset 0.
C10_FlushResets ==
    [][/\ FlushDirtyWrote =>
              /\ memtable' = EmptyMap
              /\ Len(dirty') = 0
              /\ LastSegment(segments')
                     = [id |-> next_id(segments),
                        file |-> FramesAscending(DOMAIN memtable, LatestValue')]
       /\ \A k \in Keys, v \in Values :
             AddFlushed(k, v) =>
                 /\ memtable' = EmptyMap
                 /\ Len(dirty') = 0
                 /\ LastSegment(segments')
                        = [id |-> next_id(segments),
                           file |-> FramesAscending(DOMAIN memtable \cup {k},
                                                    LatestValue')]
       /\ \A k \in Keys, v \in Values :
             (segments # << >> /\ memtable = EmptyMap /\ Len(dirty) = 0
                 /\ IsAdd(k, v))
                 => IF add(k, v).written
                    THEN LastSegment(segments').file = Frame(k, v)
                    ELSE memtable' = Insert(EmptyMap, k, 0)]_vars

\* C10 witness: a flush wrote a non-empty segment with id 10, which made
\* the list 11 long, and merged the two oldest segments; the add made next
\* bound its key to offset 0, the cursor of the dirty log having been left
\* elsewhere by the flush.
C10_Witness ==
    /\ Len(segments) = MaxSegments
    /\ segments[1].id = 0
    /\ segments[2].id = 2
    /\ LastSegment(segments).id = 10
    /\ Records(LastSegment(segments).file) # << >>
    /\ Len(log) = 1
    /\ \E k \in Keys : memtable = Insert(EmptyMap, k, 0)
    /\ dirty = FramesOf(log)

IsCrashInFlush ==
    /\ session' = "crashed_in_flush"
    /\ \E sp \in StopPoints(memtable) : Crash_flush_dirty(sp[1], sp[2])

\* C12 (crash during flush before the rename): when the process dies in
\* flush_dirty before the temporary file is renamed, the dirty log is byte
\* for byte what it was, the Database opened next has the memtable the old
\* one had when flush_dirty was called, and its get(k) returns for every
\* key k what get(k) returned before the call.
C12_CrashDuringFlush ==
    [][IsCrashInFlush =>
          /\ dirty' = dirty
          /\ memtable' = memtable
          /\ \A k \in Keys : GetAfter(k) = Get(k)]_vars

\* The step is the death of the process in add(k, v) after write_entry wrote
\* the whole record and before the memtable was updated, followed by
\* Database::new.
IsCrashAfterWrite(k, v) ==
    /\ session' = "crashed_after_write"
    /\ latest'[k] = Some(v)
    /\ Crash_write_entry(k, v, Len(write_entry(k, v)))

C14_RecoveryTruncation ==
    [][\A k \in Keys, v \in Values :
          \A n \in 0..Len(Frame(k, v)) :
              Crash_write_entry(k, v, n) =>
                  (session' = "open_failed" <=> (0 < n /\ n < Len(Frame(k, v))))]_vars

\* C15 (oversize input errors): add with a key longer than u32::MAX returns
\* KeyTooLarge with the length of the key, add with a value longer than
\* u32::MAX (and a key that is not) returns ValueTooLarge with the length of
\* the value, and in both cases the dirty log and the memtable are as they
\* were.
C15_OversizeErrors ==
    [][\A key_len \in Lengths, value_len \in Lengths :
          Call_add_rejected(key_len, value_len) =>
              /\ usize_gt(key_len, u32_MAX)
                    => add_check(key_len, value_len) = KeyTooLarge(key_len)
              /\ (~usize_gt(key_len, u32_MAX) /\ usize_gt(value_len, u32_MAX))
                    => add_check(key_len, value_len) = ValueTooLarge(value_len)
              /\ dirty' = dirty
              /\ memtable' = memtable]_vars

\* C16 (memtable / dirty log consistency): in every state reached by
\* completed calls of Database::new, add, get, flush_dirty and
\* merge_segment (no call was cut short by the death of the process), each
\* binding k -> p of the memtable is such that p is the offset at which a
\* complete record of the dirty log starts, the key of that record is k,
\* and no later record of the log has key k; and the memtable is empty
\* exactly when the dirty log is empty.
C16_MemtableLogConsistent ==
    session \in {"first", "reopened", "resumed"} =>
        LET r == Records(dirty)
        IN  /\ \A k \in DOMAIN memtable :
                   \E i \in 1..Len(r) :
                       /\ OffsetOf(r, i) = memtable[k]
                       /\ r[i][1] = k
                       /\ \A j \in (i + 1)..Len(r) : r[j][1] # k
            /\ (memtable = EmptyMap) <=> (dirty = << >>)

\* The step is a call of merge_segment.
IsMergeSegment ==
    /\ nAdds' = nAdds
    /\ memtable' = memtable
    /\ Call_merge_segment

\* C17 (segment ids stay unique and ordered): in every state the ids of the
\* segment list increase strictly from the front to the back; a flush gives
\* the segment it writes the id of the last segment plus one, or 0 when the
\* list is empty; and a call of merge_segment replaces the two front
\* segments by one segment with the id of the older, so that the list is
\* shorter by exactly one and the other segments are as they were.
C17_SegmentIds ==
    /\ [](\A i \in 1..(Len(segments) - 1) : segments[i].id < segments[i + 1].id)
    /\ [][(FlushDirtyWrote \/ \E k \in Keys, v \in Values : AddFlushed(k, v)) =>
              LastSegment(segments').id
                  = IF segments = << >> THEN 0 ELSE LastSegment(segments).id + 1]_vars
    /\ [][IsMergeSegment =>
              /\ Len(segments') = Len(segments) - 1
              /\ segments'[1].id = segments[1].id
              /\ SubSeq(segments', 2, Len(segments'))
                     = SubSeq(segments, 3, Len(segments))]_vars

\* The segment list after a flush that found MaxSegments segments and wrote
\* the segment of the given file: the merge of the two front segments, the
\* segments behind them, and the segment written.
Compacted(file) ==
    << [id |-> segments[1].id, file |-> FrontMerge.out] >>
        \o SubSeq(segments, 3, Len(segments))
        \o << [id |-> next_id(segments), file |-> file] >>

\* C18 (bounded segment count): in every state between calls the segment
\* list holds at most 10 segments; a flush that makes the list 11 long, be
\* it called by the client or by add, leaves the list with the merge of the
\* two oldest segments at the front, the segments behind them as they were,
\* and the segment it wrote, untouched, at the back.
C18_BoundedSegments ==
    /\ [](Len(segments) <= MaxSegments)
    /\ [][(Len(segments) = MaxSegments /\ IsFlushDirty) =>
              segments' = Compacted(FramesAscending(DOMAIN memtable, LatestValue'))]_vars
    /\ [][\A k \in Keys, v \in Values :
              (Len(segments) = MaxSegments /\ IsAdd(k, v) /\ segments' # segments) =>
                  segments' = Compacted(FramesAscending(DOMAIN memtable \cup {k},
                                                        LatestValue'))]_vars

\* C19 (merge with an empty side): when one of the two segments merged
\* holds no record, Segment::merge returns Ok and its output is the other
\* segment, byte for byte; when both hold none, it returns Ok with an empty
\* output.
C19_MergeEmptySide ==
    (Len(segments) >= 2 /\ (FrontOld = << >> \/ FrontNew = << >>)) =>
        /\ FrontMerge.ok
        /\ FrontMerge.out = IF FrontOld = << >> THEN FrontNew ELSE FrontOld

\* The step is a call of flush_dirty that returns the error of an I/O
\* operation made before the dirty log is truncated.
IsFailFlushDirty ==
    /\ nAdds' = nAdds
    /\ segments' = segments
    /\ \E sp \in StopPoints(memtable) : Fail_flush_dirty(sp[1], sp[2])

\* What flush_dirty does when it is called again in the state after the
\* step.
RetriedFlush == flush_dirty(memtable', dirty', dirty_pos', segments')

\* C20 (a failed flush is retryable): when flush_dirty returns an error at
\* a step up to and including the promotion of the temporary file, every
\* key that has a record in the dirty log is still bound in the memtable,
\* get(k) returns for every key k what it returned before the call, and
\* flush_dirty called again returns Ok and writes a segment with a record
\* for each key of the dirty log, with the value of the latest add.
C20_FailedFlushRetryable ==
    [][IsFailFlushDirty =>
          /\ dirty' = dirty
          /\ KeysOf(Records(dirty')) \subseteq DOMAIN memtable'
          /\ \A k \in Keys : GetAfter(k) = Get(k)
          /\ RetriedFlush.ok
          /\ RetriedFlush.written
          /\ LastSegment(RetriedFlush.segments).file
                 = FramesAscending(KeysOf(Records(dirty)), LatestValue)]_vars

\* C21 (no data loss on a failed compaction): when merge_segment returns an
\* error, the segment list holds the segments it held when merge_segment
\* was called, and every key for which get returned a value before the call
\* still has that value; this for a call by the client and for the call a
\* flush makes inside add(k, v), where the list at the call is the list
\* before the add with the segment just written at the back (k itself is
\* written by the add).
C21_FailedCompactionKeepsData ==
    /\ [][(IsMergeSegment /\ ~merge_segment(segments).ok) =>
              /\ segments' = segments
              /\ \A j \in Keys :
                    Get(j).kind = "Some" => GetAfter(j) = Get(j)]_vars
    /\ [][\A k \in Keys, v \in Values :
              (IsAdd(k, v) /\ add(k, v).merged /\ ~add(k, v).ok) =>
                  /\ Len(segments') = Len(segments) + 1
                  /\ SubSeq(segments', 1, Len(segments)) = segments
                  /\ \A j \in Keys \ {k} :
                        Get(j).kind = "Some" => GetAfter(j) = Get(j)]_vars

====
